---- MODULE Spec2Model ----
(***************************************************************************)
(* Model of check_positions_call.py: one run of main(), from the parsed    *)
(* command line to the exit of the process.  Python strings that the       *)
(* program manipulates are sequences of one-character strings; JSON values *)
(* are records tagged with their kind.                                     *)
(***************************************************************************)
EXTENDS Integers, Sequences, FiniteSets, TLC

(* ------------------------------ bounds -------------------------------- *)
\* largest number of whitespace characters around the wallet argument
MaxPad == 1
\* the wallet bodies tried are AddrLen - LenSlack .. AddrLen + LenSlack long
LenSlack == 1

(* ------------------------- program constants -------------------------- *)
POSITIONS_SELECTOR == <<"0", "x", "9", "1", "9", "d", "d", "b", "f", "0">>

\* a constant one byte too long: 42 hex characters after the prefix
DEFAULT_RESOLVER_long ==
  <<"0", "x", "3", "9", "4", "C", "e", "4", "5", "6", "7", "8", "e", "0",
    "0", "1", "9", "c", "0", "0", "4", "5", "1", "9", "4", "a", "5", "6",
    "1", "E", "2", "b", "E", "d", "0", "F", "C", "c", "6", "C", "f", "0",
    "a", "1">>

DEFAULT_RESOLVER ==
  <<"0", "x", "3", "9", "4", "C", "e", "4", "5", "6", "7", "8", "e", "0",
    "0", "1", "9", "c", "0", "0", "4", "5", "1", "9", "4", "a", "5", "6",
    "1", "E", "2", "b", "E", "d", "0", "F", "C", "c", "6", "C", "f", "0">>

\* len(clean) != 40
AddrLen == 40
\* clean.rjust(64, "0")
PadWidth == 64
\* clean[2:]
PrefixLen == 2
\* urlopen(req, timeout=60, ...)
Timeout == 60
\* "id": 1
RpcId == 1

(* ------------------------- Python str methods ------------------------- *)
\* the characters str.strip() removes, as far as the inputs contain them
Whitespace == {" ", "\t"}

\* the string "0123456789abcdef" of line 31
HexDigits == {"0", "1", "2", "3", "4", "5", "6", "7", "8", "9",
              "a", "b", "c", "d", "e", "f"}

\* str.lower() on one character
LowerChar(c) ==
  CASE c = "A" -> "a" [] c = "B" -> "b" [] c = "C" -> "c" [] c = "D" -> "d"
    [] c = "E" -> "e" [] c = "F" -> "f" [] c = "G" -> "g" [] c = "X" -> "x"
    [] OTHER -> c

lower(s) == [i \in 1..Len(s) |-> LowerChar(s[i])]

RECURSIVE lstrip(_)
lstrip(s) == IF s # <<>> /\ Head(s) \in Whitespace THEN lstrip(Tail(s)) ELSE s

RECURSIVE rstrip(_)
rstrip(s) ==
  IF s # <<>> /\ s[Len(s)] \in Whitespace
  THEN rstrip(SubSeq(s, 1, Len(s) - 1))
  ELSE s

strip(s) == rstrip(lstrip(s))

startswith(s, p) == Len(s) >= Len(p) /\ SubSeq(s, 1, Len(p)) = p

\* s[n:]
slice_from(s, n) == SubSeq(s, n + 1, Len(s))

\* str.ljust: the padding goes to the right
ljust(s, width, fill) ==
  IF Len(s) >= width THEN s ELSE s \o [i \in 1..(width - Len(s)) |-> fill]

rjust(s, width, fill) ==
  IF Len(s) >= width THEN s ELSE [i \in 1..(width - Len(s)) |-> fill] \o s

(* --------------------------- build_calldata --------------------------- *)
MsgPrefix == "wallet address must start with 0x"
MsgBody == "wallet address must be 40 hex chars (after 0x)"

Raise(msg) == [ok |-> FALSE, value |-> <<>>, msg |-> msg]
Return(v) == [ok |-> TRUE, value |-> v, msg |-> ""]

\* build_calldata without the hex test of line 31
build_calldata_nohex(address) ==
  LET clean == strip(lower(address)) IN
  IF ~startswith(clean, <<"0", "x">>) THEN Raise(MsgPrefix)
  ELSE LET body == slice_from(clean, PrefixLen) IN
       IF Len(body) # AddrLen THEN Raise(MsgBody)
       ELSE Return(POSITIONS_SELECTOR \o rjust(body, PadWidth, "0"))

build_calldata(address) ==
  LET clean == strip(lower(address)) IN
  IF ~startswith(clean, <<"0", "x">>) THEN Raise(MsgPrefix)
  ELSE LET body == slice_from(clean, PrefixLen) IN
       IF Len(body) # AddrLen \/ \E i \in 1..Len(body) : body[i] \notin HexDigits
       THEN Raise(MsgBody)
       ELSE Return(POSITIONS_SELECTOR \o rjust(body, PadWidth, "0"))

(* ----------------------------- JSON values ---------------------------- *)
\* what json.loads returns and json.dumps takes: None, a number, a str, a
\* list or a dict; members is the dict's set of <<key, value>> pairs
JNull == [kind |-> "null", num |-> 0, str |-> <<>>, items |-> <<>>, members |-> {}]
JNum(n) == [kind |-> "number", num |-> n, str |-> <<>>, items |-> <<>>, members |-> {}]
JStr(s) == [kind |-> "string", num |-> 0, str |-> s, items |-> <<>>, members |-> {}]
JArr(a) == [kind |-> "array", num |-> 0, str |-> <<>>, items |-> a, members |-> {}]
JObj(m) == [kind |-> "object", num |-> 0, str |-> <<>>, items |-> <<>>, members |-> m]

Keys(v) == {m[1] : m \in v.members}
Member(v, k) == (CHOOSE m \in v.members : m[1] = k)[2]

\* the characters of the keys main looks up
KeyText(k) ==
  CASE k = "error" -> <<"e", "r", "r", "o", "r">>
    [] k = "data" -> <<"d", "a", "t", "a">>
    [] OTHER -> <<>>

IsSubstring(p, s) ==
  \E i \in 1..(Len(s) - Len(p) + 1) : SubSeq(s, i, i + Len(p) - 1) = p

PyOk(v) == [exc |-> "None", value |-> v]
PyRaise(e) == [exc |-> e, value |-> JNull]

\* key in v
py_in(k, v) ==
  CASE v.kind = "object" -> PyOk(k \in Keys(v))
    [] v.kind = "array" ->
         PyOk(\E i \in 1..Len(v.items) : v.items[i] = JStr(KeyText(k)))
    [] v.kind = "string" -> PyOk(IsSubstring(KeyText(k), v.str))
    [] OTHER -> PyRaise("TypeError")

\* v[key]
py_getitem(v, k) ==
  CASE v.kind = "object" ->
         IF k \in Keys(v) THEN PyOk(Member(v, k)) ELSE PyRaise("KeyError")
    [] v.kind \in {"array", "string"} -> PyRaise("TypeError")
    [] OTHER -> PyRaise("TypeError")

\* v.get(key): only a dict has the method; a missing key gives None
py_get(v, k) ==
  IF v.kind = "object"
  THEN PyOk(IF k \in Keys(v) THEN Member(v, k) ELSE JNull)
  ELSE PyRaise("AttributeError")

\* a test that takes any value for a str
isinstance_str_any(v) == TRUE

\* isinstance(v, str)
isinstance_str(v) == v.kind = "string"

(* ------------------------------- inputs ------------------------------- *)
Fill(n, c) == [i \in 1..n |-> c]

\* a body of n characters, all `fill` but the one at `pos`
Body(n, fill, pos, c) == [i \in 1..n |-> IF i = pos THEN c ELSE fill]

Prefixes == {<<"0", "x">>, <<"0", "X">>, <<>>}
BodyChars == {"1", "a", "F", "g", "x", " "}
BodyLens == (AddrLen - LenSlack)..(AddrLen + LenSlack)

\* the --wallet values tried: optional whitespace around, a prefix, a body
Wallets ==
  { Fill(l, w) \o p \o Body(n, f, IF last THEN n ELSE 1, c) \o Fill(t, w) :
      l \in 0..MaxPad, t \in 0..MaxPad, w \in Whitespace, p \in Prefixes,
      n \in BodyLens, f \in {"0", "B"}, last \in BOOLEAN, c \in BodyChars }

RpcUrls == {"https://rpc.example/v2/key"}
GivenResolvers == {<<"0", "x", "d", "e", "a", "d">>}

\* sys.argv as argparse sees it: --resolver may be absent
Argvs ==
  [rpc_url : RpcUrls, wallet : Wallets, has_resolver : {TRUE},
   resolver : GivenResolvers, insecure : BOOLEAN]
  \cup
  [rpc_url : RpcUrls, wallet : Wallets, has_resolver : {FALSE},
   resolver : {<<>>}, insecure : BOOLEAN]

(* ------------------------ what the endpoint may do -------------------- *)
RpcHead == {<<"jsonrpc", JStr(<<"2", ".", "0">>)>>, <<"id", JNum(RpcId)>>}

ErrorValues ==
  { JObj({<<"code", JNum(3)>>, <<"message", JStr(<<"r", "e", "v", "e", "r", "t", "e", "d">>)>>}),
    JObj({<<"code", JNum(3)>>, <<"message", JStr(<<"r", "e", "v", "e", "r", "t", "e", "d">>)>>,
          <<"data", JStr(<<"0", "x", "a", "b", "c", "1", "2", "3">>)>>}),
    JObj({<<"code", JNum(3)>>, <<"data", JNum(5)>>}),
    JObj({<<"code", JNum(3)>>, <<"data", JNull>>}),
    JStr(<<"b", "o", "o", "m">>), JNum(5), JNull, JArr(<<JStr(<<"d", "a", "t", "a">>)>>) }

JsonBodies ==
  { JObj(RpcHead \cup {<<"result", JStr(<<"0", "x">>)>>}) }
  \cup { JObj(RpcHead \cup {<<"error", e>>}) : e \in ErrorValues }
  \cup { JArr(<<>>), JArr(<<JStr(<<"e", "r", "r", "o", "r">>)>>), JStr(<<"o", "k">>), JStr(<<"e", "r", "r", "o", "r">>),
         JNum(5), JNull }

HttpCodes == {200, 404, 500}

HttpReason(code) ==
  CASE code = 200 -> "OK"
    [] code = 404 -> "Not Found"
    [] code = 500 -> "Internal Server Error"

\* net: how far the exchange got; text: what the body of the answer is
Replies ==
  [net : {"refused", "dns", "stalled"}, code : {0}, text : {"none"}, json : {JNull}]
  \cup
  [net : {"answered"}, code : HttpCodes \ {200}, text : {"none"}, json : {JNull}]
  \cup
  [net : {"answered"}, code : {200}, text : {"garbage", "badutf8"}, json : {JNull}]
  \cup
  [net : {"answered"}, code : {200}, text : {"json"}, json : JsonBodies]

(* ------------------------------ post_json ----------------------------- *)
\* json.dumps(payload) of the dict main builds, as the JSON value on the wire
json_dumps(p) ==
  JObj({ <<"jsonrpc", JStr(p.jsonrpc)>>,
         <<"id", JNum(p.id)>>,
         <<"method", JStr(p.method)>>,
         <<"params",
           JArr(<<JObj({<<"to", JStr(p.params[1].to)>>,
                        <<"data", JStr(p.params[1].data)>>}),
                  JStr(p.params[2])>>)>> })

\* the urllib.request.Request and the urlopen arguments
Request(url, payload, insecure) ==
  [url |-> url, data |-> json_dumps(payload),
   content_type |-> "application/json", timeout |-> Timeout,
   context |-> IF insecure THEN "unverified" ELSE "None"]

Outcome(e, code, reason, v) == [exc |-> e, code |-> code, reason |-> reason, value |-> v]

\* what post_json returns or raises for an answer of the endpoint
post_json(reply) ==
  CASE reply.net = "refused" -> Outcome("URLError", 0, "Connection refused", JNull)
    [] reply.net = "dns" -> Outcome("URLError", 0, "Name or service not known", JNull)
    [] reply.net = "stalled" -> Outcome("TimeoutError", 0, "timed out", JNull)
    [] OTHER ->
         IF ~(200 <= reply.code /\ reply.code < 300)
         THEN Outcome("HTTPError", reply.code, HttpReason(reply.code), JNull)
         ELSE CASE reply.text = "badutf8" -> Outcome("UnicodeDecodeError", 0, "", JNull)
                [] reply.text = "garbage" -> Outcome("JSONDecodeError", 0, "", JNull)
                [] OTHER -> Outcome("None", 0, "", reply.json)

(* ------------------------------- main --------------------------------- *)
VARIABLES
  pc,         \* where main is
  argv,       \* the command line
  args,       \* argparse's namespace
  calldata,   \* the local of line 79
  payload,    \* the dict of lines 84-95
  requests,   \* what post_json has put on the wire, in order
  response,   \* the local of line 103
  stdout,     \* the lines printed, in order
  stderr,     \* the lines written to sys.stderr, in order
  raised,     \* the exception that ended the run, "None" if none
  caught,     \* whether an except clause of main handled it
  exit_code,  \* the process's exit status, -1 while it runs
  answer      \* what the endpoint did with the request, for the record

vars == <<pc, argv, args, calldata, payload, requests, response, stdout,
          stderr, raised, caught, exit_code, answer>>

NoAnswer == [net |-> "none", code |-> 0, text |-> "none", json |-> JNull]

NoArgs == [rpc_url |-> "", wallet |-> <<>>, resolver |-> <<>>, insecure |-> FALSE]

NoPayload ==
  [jsonrpc |-> <<>>, id |-> 0, method |-> <<>>,
   params |-> <<[to |-> <<>>, data |-> <<>>], <<>>>>]

Line(label, text) == [label |-> label, text |-> text]

Init ==
  /\ pc = "parse"
  /\ argv \in Argvs
  /\ args = NoArgs
  /\ calldata = <<>>
  /\ payload = NoPayload
  /\ requests = <<>>
  /\ response = JNull
  /\ stdout = <<>>
  /\ stderr = <<>>
  /\ raised = "None"
  /\ caught = FALSE
  /\ exit_code = -1
  /\ answer = NoAnswer

\* parser.parse_args(): --resolver defaults to DEFAULT_RESOLVER
parse_args(a) ==
  [rpc_url |-> a.rpc_url, wallet |-> a.wallet,
   resolver |-> IF a.has_resolver THEN a.resolver ELSE DEFAULT_RESOLVER,
   insecure |-> a.insecure]

ParseArgs ==
  /\ pc = "parse"
  /\ args' = parse_args(argv)
  /\ pc' = "validate"
  /\ UNCHANGED <<answer, argv, calldata, payload, requests, response, stdout, stderr,
                 raised, caught, exit_code>>

\* lines 78-79: build_calldata returns
BuildCalldataOk ==
  /\ pc = "validate"
  /\ build_calldata(args.wallet).ok
  /\ calldata' = build_calldata(args.wallet).value
  /\ pc' = "build"
  /\ UNCHANGED <<answer, argv, args, payload, requests, response, stdout, stderr,
                 raised, caught, exit_code>>

\* lines 80-82: build_calldata raises ValueError, main reports it and returns 1
BuildCalldataFail ==
  /\ pc = "validate"
  /\ ~build_calldata(args.wallet).ok
  /\ stderr' = Append(stderr, Line("[error]", build_calldata(args.wallet).msg))
  /\ raised' = "ValueError"
  /\ caught' = TRUE
  /\ exit_code' = 1
  /\ pc' = "done"
  /\ UNCHANGED <<answer, argv, args, calldata, payload, requests, response, stdout>>

\* a payload that ignores --resolver
Envelope_default(resolver, data) ==
  [jsonrpc |-> <<"2", ".", "0">>, id |-> RpcId,
   method |-> <<"e", "t", "h", "_", "c", "a", "l", "l">>,
   params |-> <<[to |-> DEFAULT_RESOLVER, data |-> data],
                <<"l", "a", "t", "e", "s", "t">>>>]

\* the dict of lines 84-95
Envelope(resolver, data) ==
  [jsonrpc |-> <<"2", ".", "0">>, id |-> RpcId, method |-> <<"e", "t", "h", "_", "c", "a", "l", "l">>,
   params |-> <<[to |-> resolver, data |-> data], <<"l", "a", "t", "e", "s", "t">>>>]

BuildPayload ==
  /\ pc = "build"
  /\ payload' = Envelope(args.resolver, calldata)
  /\ pc' = "echo_url"
  /\ UNCHANGED <<answer, argv, args, calldata, requests, response, stdout, stderr,
                 raised, caught, exit_code>>

\* one print of lines 97-100
Echo(at, label, text, next) ==
  /\ pc = at
  /\ stdout' = Append(stdout, Line(label, text))
  /\ pc' = next
  /\ UNCHANGED <<answer, argv, args, calldata, payload, requests, response, stderr,
                 raised, caught, exit_code>>

EchoRpcUrl == Echo("echo_url", "RPC URL", args.rpc_url, "echo_resolver")
\* the second print showing the wallet instead of the resolver
EchoResolver_asWallet == Echo("echo_resolver", "Wallet", args.wallet, "echo_wallet")
EchoResolver == Echo("echo_resolver", "Resolver", args.resolver, "echo_wallet")
EchoWallet == Echo("echo_wallet", "Wallet", args.wallet, "echo_calldata")
EchoCalldata == Echo("echo_calldata", "Calldata", calldata, "send")

\* line 103 down to urlopen: the request leaves
SendRequest ==
  /\ pc = "send"
  /\ requests' = Append(requests, Request(args.rpc_url, payload, args.insecure))
  /\ pc' = "await"
  /\ UNCHANGED <<answer, argv, args, calldata, payload, response, stdout, stderr,
                 raised, caught, exit_code>>

\* lines 104-106
RecvHttpError ==
  /\ pc = "await"
  /\ \E reply \in Replies :
       LET out == post_json(reply) IN
       /\ answer' = reply
       /\ out.exc = "HTTPError"
       /\ stderr' = Append(stderr, Line("[http error]", <<out.code, out.reason>>))
  /\ raised' = "HTTPError"
  /\ caught' = TRUE
  /\ exit_code' = 1
  /\ pc' = "done"
  /\ UNCHANGED <<argv, args, calldata, payload, requests, response, stdout>>

\* an except clause that tries again instead of returning 1
RecvUrlError_retry ==
  /\ pc = "await"
  /\ \E reply \in Replies :
       LET out == post_json(reply) IN
       /\ answer' = reply
       /\ out.exc = "URLError"
       /\ stderr' = Append(stderr, Line("[network error]", <<out.reason>>))
  /\ pc' = "send"
  /\ UNCHANGED <<argv, args, calldata, payload, requests, response, stdout,
                 raised, caught, exit_code>>

\* lines 107-109
RecvUrlError ==
  /\ pc = "await"
  /\ \E reply \in Replies :
       LET out == post_json(reply) IN
       /\ answer' = reply
       /\ out.exc = "URLError"
       /\ stderr' = Append(stderr, Line("[network error]", <<out.reason>>))
  /\ raised' = "URLError"
  /\ caught' = TRUE
  /\ exit_code' = 1
  /\ pc' = "done"
  /\ UNCHANGED <<argv, args, calldata, payload, requests, response, stdout>>

\* an exception no except clause names leaves main: the interpreter writes
\* the traceback and the process exits with status 1
Uncaught(e) ==
  /\ stderr' = Append(stderr, Line("Traceback", <<e>>))
  /\ raised' = e
  /\ caught' = FALSE
  /\ exit_code' = 1
  /\ pc' = "done"

\* post_json raises something that is neither HTTPError nor URLError
RecvOtherError ==
  /\ pc = "await"
  /\ \E reply \in Replies :
       LET out == post_json(reply) IN
       /\ answer' = reply
       /\ out.exc \notin {"None", "HTTPError", "URLError"}
       /\ Uncaught(out.exc)
  /\ UNCHANGED <<argv, args, calldata, payload, requests, response, stdout>>

\* post_json returns the parsed body
RecvResponse ==
  /\ pc = "await"
  /\ \E reply \in Replies :
       LET out == post_json(reply) IN
       /\ answer' = reply
       /\ out.exc = "None"
       /\ response' = out.value
  /\ pc' = "print_header"
  /\ UNCHANGED <<argv, args, calldata, payload, requests, stdout, stderr,
                 raised, caught, exit_code>>

\* line 111
PrintHeader ==
  /\ pc = "print_header"
  /\ stdout' = Append(stdout, Line("RPC response:", <<>>))
  /\ pc' = "print_response"
  /\ UNCHANGED <<answer, argv, args, calldata, payload, requests, response, stderr,
                 raised, caught, exit_code>>

\* line 112
PrintResponse ==
  /\ pc = "print_response"
  /\ stdout' = Append(stdout, Line("response", response))
  /\ pc' = "inspect"
  /\ UNCHANGED <<answer, argv, args, calldata, payload, requests, response, stderr,
                 raised, caught, exit_code>>

Inspected(e, show, data) == [exc |-> e, show |-> show, data |-> data]

\* lines 114-118: the exception raised, or whether and what to print
inspect(resp) ==
  LET has == py_in("error", resp) IN
  IF has.exc # "None" THEN Inspected(has.exc, FALSE, <<>>)
  ELSE IF ~has.value THEN Inspected("None", FALSE, <<>>)
  ELSE LET err == py_getitem(resp, "error") IN
       IF err.exc # "None" THEN Inspected(err.exc, FALSE, <<>>)
       ELSE LET data == py_get(err.value, "data") IN
            IF data.exc # "None" THEN Inspected(data.exc, FALSE, <<>>)
            ELSE IF isinstance_str(data.value)
                 THEN Inspected("None", TRUE, data.value.str)
                 ELSE Inspected("None", FALSE, <<>>)

\* lines 114-119 run through: the optional line, then return 0
InspectAndReturn ==
  /\ pc = "inspect"
  /\ inspect(response).exc = "None"
  /\ stdout' = IF inspect(response).show
               THEN Append(stdout, Line("Decoded error data", inspect(response).data))
               ELSE stdout
  /\ exit_code' = 0
  /\ pc' = "done"
  /\ UNCHANGED <<answer, argv, args, calldata, payload, requests, response, stderr,
                 raised, caught>>

\* lines 114-116 raise
InspectRaises ==
  /\ pc = "inspect"
  /\ inspect(response).exc # "None"
  /\ Uncaught(inspect(response).exc)
  /\ UNCHANGED <<answer, argv, args, calldata, payload, requests, response, stdout>>

Next ==
  \/ ParseArgs
  \/ BuildCalldataOk
  \/ BuildCalldataFail
  \/ BuildPayload
  \/ EchoRpcUrl
  \/ EchoResolver
  \/ EchoWallet
  \/ EchoCalldata
  \/ SendRequest
  \/ RecvHttpError
  \/ RecvUrlError
  \/ RecvOtherError
  \/ RecvResponse
  \/ PrintHeader
  \/ PrintResponse
  \/ InspectAndReturn
  \/ InspectRaises

Spec == Init /\ [][Next]_vars

(* ============================ properties ============================== *)
AnyCaseHex == HexDigits \cup {"A", "B", "C", "D", "E", "F"}
UpperChar(c) ==
  CASE c = "a" -> "A" [] c = "b" -> "B" [] c = "c" -> "C" [] c = "d" -> "D"
    [] c = "e" -> "E" [] c = "f" -> "F" [] c = "x" -> "X" [] OTHER -> c
AllUpper(s) == [i \in 1..Len(s) |-> UpperChar(s[i])]
AllLower(s) == [i \in 1..Len(s) |-> LowerChar(s[i])]

\* 0x or 0X, then exactly 40 hex digits of either case
WellFormed(w) ==
  /\ Len(w) = PrefixLen + AddrLen
  /\ w[1] = "0" /\ w[2] \in {"x", "X"}
  /\ \A i \in (PrefixLen + 1)..Len(w) : w[i] \in AnyCaseHex

Validated == pc \notin {"parse", "validate"}

\* C1: for a wallet that is 0x (either case) and exactly 40 hex digits of any
\* case, the calldata is 74 characters, starts with 0x919ddbf0, and its last
\* 64 characters are 24 zeros followed by the body in lower case; the all-upper
\* and all-lower spellings of the wallet give the same calldata.
C1_Calldata ==
  (Validated /\ WellFormed(args.wallet)) =>
    /\ raised # "ValueError"
    /\ Len(calldata) = 74
    /\ SubSeq(calldata, 1, 10) = <<"0", "x", "9", "1", "9", "d", "d", "b", "f", "0">>
    /\ \A i \in 1..64 :
         calldata[10 + i] =
           IF i <= 24 THEN "0" ELSE LowerChar(args.wallet[PrefixLen + i - 24])
    /\ build_calldata(AllUpper(args.wallet)) = Return(calldata)
    /\ build_calldata(AllLower(args.wallet)) = Return(calldata)

C1_Witness ==
  /\ pc = "build"
  /\ WellFormed(args.wallet)
  /\ args.wallet[2] = "X"
  /\ \E i \in 3..Len(args.wallet) : args.wallet[i] \in {"B", "F"}
  /\ \E i \in 3..Len(args.wallet) : args.wallet[i] = "a"
  /\ Len(calldata) = 74

\* the run ended in the except clause of lines 80-82 and sent nothing
Rejected ==
  /\ pc = "done"
  /\ raised = "ValueError" /\ caught
  /\ exit_code = 1
  /\ Len(stderr) = 1 /\ stderr[1].label = "[error]"
  /\ requests = <<>>

\* the three defects of the claim, read on the string as given
Malformed(w) ==
  \/ ~(Len(w) >= PrefixLen /\ w[1] = "0" /\ w[2] \in {"x", "X"})
  \/ Len(w) - PrefixLen # AddrLen
  \/ \E i \in (PrefixLen + 1)..Len(w) : w[i] \notin AnyCaseHex

\* C2 as stated: every wallet that does not start with 0x, or whose body after
\* the two-character prefix is not 40 long, or has a non-hex character in it,
\* is rejected with InvalidAddress, exit code 1 and no request.
C2_AsStated == (Validated /\ Malformed(args.wallet)) => Rejected

\* C2 amended: the same, with the three defects read on the wallet after its
\* leading and trailing whitespace is removed.
C2_Rejects == (Validated /\ Malformed(strip(args.wallet))) => Rejected

C2_Witness ==
  /\ Rejected
  /\ Len(args.wallet) = PrefixLen + AddrLen
  /\ args.wallet[1] = "0" /\ args.wallet[2] = "x"
  /\ \E i \in 3..Len(args.wallet) : args.wallet[i] = "g"

\* the endpoint answered 2xx with a body that parses as JSON
RoundTrip == answer.net = "answered" /\ answer.code = 200 /\ answer.text = "json"

Labels(out) == [i \in 1..Len(out) |-> out[i].label]

ResponsePrinted ==
  \E i \in 1..Len(stdout) : stdout[i].label = "response" /\ stdout[i].text = answer.json

\* C3: a run whose round trip completed with a JSON object, whatever its
\* result or error member is, ends with exit code 0 and the response printed.
C3_ExitZero ==
  (pc = "done" /\ RoundTrip /\ answer.json.kind = "object") =>
    (exit_code = 0 /\ ResponsePrinted)

Prefixes3 == {"[error]", "[http error]", "[network error]"}

\* C4: a run ends either with exit code 0 after the response is printed, or
\* with exit code 1 through InvalidAddress, HttpError or NetworkError, caught
\* by main and reported as one line on standard error; never in another way.
C4_TwoEndings ==
  pc = "done" =>
    \/ exit_code = 0 /\ raised = "None" /\ ResponsePrinted /\ stderr = <<>>
    \/ /\ exit_code = 1
       /\ raised \in {"ValueError", "HTTPError", "URLError"}
       /\ caught
       /\ Len(stderr) = 1
       /\ stderr[1].label \in Prefixes3

\* C5: a non-2xx answer is reported as "[http error] <code> <reason>" with exit
\* code 1 and never as a network error; a connection-level failure (refused,
\* name not resolved, no answer in time) as "[network error]" with exit code 1;
\* a validation failure as "[error]"; and every run that exits with 1 wrote
\* exactly one line, with one of the three prefixes.
C5_Distinct ==
  pc = "done" =>
    /\ (answer.net = "answered" /\ answer.code # 200) =>
         /\ exit_code = 1
         /\ Labels(stderr) = <<"[http error]">>
         /\ stderr[1].text = <<answer.code, HttpReason(answer.code)>>
    /\ answer.net \in {"refused", "dns", "stalled"} =>
         (exit_code = 1 /\ Labels(stderr) = <<"[network error]">>)
    /\ raised = "ValueError" => Labels(stderr) = <<"[error]">>
    /\ exit_code = 1 =>
         (Len(stderr) = 1 /\ stderr[1].label \in Prefixes3)

\* the response is an object whose error member is an object whose data
\* member is a string
HasErrorDataString(r) ==
  /\ r.kind = "object"
  /\ \E m \in r.members :
       /\ m[1] = "error"
       /\ m[2].kind = "object"
       /\ \E d \in m[2].members : d[1] = "data" /\ d[2].kind = "string"

ErrorDataString(r) == Member(Member(r, "error"), "data").str

DecodedLines == {i \in 1..Len(stdout) : stdout[i].label = "Decoded error data"}

\* C6: at the end of a run the decoded-error-data line is on standard output
\* exactly when the round trip completed and the response has an error object
\* with a string data member, and then it shows that string; with no error
\* member, or an error object whose data is absent or not a string, there is
\* no such line and the exit code is 0.
C6_DecodedLine ==
  pc = "done" =>
    /\ (DecodedLines # {}) <=> (RoundTrip /\ HasErrorDataString(answer.json))
    /\ \A i \in DecodedLines : stdout[i].text = ErrorDataString(answer.json)
    /\ Cardinality(DecodedLines) <= 1
    /\ ( /\ RoundTrip
         /\ answer.json.kind = "object"
         /\ ~HasErrorDataString(answer.json)
         /\ \A m \in answer.json.members : m[1] = "error" => m[2].kind = "object" )
       => (DecodedLines = {} /\ exit_code = 0)

C6_Witness ==
  /\ pc = "done"
  /\ exit_code = 0
  /\ \E i \in DecodedLines : stdout[i].text = <<"0", "x", "a", "b", "c", "1", "2", "3">>

C6_WitnessNoLine ==
  /\ pc = "done"
  /\ exit_code = 0
  /\ RoundTrip
  /\ "error" \in Keys(answer.json)
  /\ DecodedLines = {}

\* the resolver the command line asks for
AskedResolver == IF argv.has_resolver THEN argv.resolver ELSE DEFAULT_RESOLVER

ExpectedCall ==
  JObj({<<"to", JStr(AskedResolver)>>,
        <<"data", JStr(build_calldata(argv.wallet).value)>>})

\* C7: from its construction on the payload is the eth_call envelope for the
\* command line's wallet and resolver, and the body of every request sent is
\* that envelope: jsonrpc "2.0", id 1, method eth_call, params
\* [{to, data}, "latest"] with data the wallet's calldata.
C7_Envelope ==
  /\ pc \notin {"parse", "validate", "build"} /\ raised # "ValueError" =>
       /\ payload.jsonrpc = <<"2", ".", "0">>
       /\ payload.id = 1
       /\ payload.method = <<"e", "t", "h", "_", "c", "a", "l", "l">>
       /\ payload.params[1].to = AskedResolver
       /\ payload.params[1].data = build_calldata(argv.wallet).value
       /\ payload.params[2] = <<"l", "a", "t", "e", "s", "t">>
  /\ \A i \in 1..Len(requests) :
       LET d == requests[i].data IN
       /\ d.kind = "object"
       /\ Keys(d) = {"jsonrpc", "id", "method", "params"}
       /\ Cardinality(d.members) = 4
       /\ Member(d, "jsonrpc") = JStr(<<"2", ".", "0">>)
       /\ Member(d, "id") = JNum(1)
       /\ Member(d, "method") = JStr(<<"e", "t", "h", "_", "c", "a", "l", "l">>)
       /\ Member(d, "params") = JArr(<<ExpectedCall, JStr(<<"l", "a", "t", "e", "s", "t">>)>>)
       /\ requests[i].url = argv.rpc_url

C7_Witness ==
  /\ Len(requests) = 1
  /\ argv.has_resolver
  /\ Member(Member(requests[1].data, "params").items[1], "to").str = <<"0", "x", "d", "e", "a", "d">>
  /\ Len(Member(Member(requests[1].data, "params").items[1], "data").str) = 74

\* C8: never more than one request; a finished run sent exactly one if the
\* wallet passed validation and none if it did not, also when the run ended
\* in an HTTP-level or network-level failure.
C8_OneRequest ==
  /\ Len(requests) <= 1
  /\ requests # <<>> => build_calldata(argv.wallet).ok
  /\ pc = "done" =>
       Len(requests) = IF build_calldata(argv.wallet).ok THEN 1 ELSE 0

C8_Witness ==
  /\ pc = "done"
  /\ raised = "URLError"
  /\ Len(requests) = 1

OutputOrder ==
  <<"RPC URL", "Resolver", "Wallet", "Calldata", "RPC response:", "response",
    "Decoded error data">>

\* C9: standard output is always a beginning of: RPC URL, resolver, wallet,
\* calldata, the response header, the response, the decoded error data; the
\* four echo lines show the arguments and the calldata and are all there
\* before a request is sent; the response is printed only once it has been
\* received; a run whose validation failed printed nothing.
C9_OutputOrder ==
  /\ Len(stdout) <= Len(OutputOrder)
  /\ \A i \in 1..Len(stdout) : stdout[i].label = OutputOrder[i]
  /\ Len(stdout) >= 1 => stdout[1].text = argv.rpc_url
  /\ Len(stdout) >= 2 => stdout[2].text = AskedResolver
  /\ Len(stdout) >= 3 => stdout[3].text = argv.wallet
  /\ Len(stdout) >= 4 => stdout[4].text = build_calldata(argv.wallet).value
  /\ requests # <<>> => Len(stdout) >= 4
  /\ Len(stdout) >= 5 => (requests # <<>> /\ RoundTrip)
  /\ Len(stdout) >= 6 => stdout[6].text = answer.json
  /\ raised = "ValueError" => stdout = <<>>

C9_Witness ==
  /\ pc = "done"
  /\ Len(stdout) = 7

C9_WitnessRejected ==
  /\ pc = "done"
  /\ raised = "ValueError"
  /\ stdout = <<>>

\* a 20-byte address: 0x and exactly 40 hex digits
IsAddress20(a) ==
  /\ Len(a) = 42
  /\ a[1] = "0" /\ a[2] = "x"
  /\ \A i \in 3..Len(a) : a[i] \in AnyCaseHex

SentTo(i) == Member(Member(requests[i].data, "params").items[1], "to").str

\* C10 as stated: the default resolver has 42 hex characters after the prefix,
\* so a run without --resolver sends a to member that is no 20-byte address.
C10_AsStated ==
  (requests # <<>> /\ ~argv.has_resolver) =>
    (Len(SentTo(1)) - 2 = 42 /\ ~IsAddress20(SentTo(1)))

\* C10 amended: the default resolver is 42 characters in all, 0x and exactly
\* 40 hex digits, so a run without --resolver sends a to member that is a
\* well-formed 20-byte address.
C10_DefaultIsAddress ==
  (requests # <<>> /\ ~argv.has_resolver) =>
    (Len(SentTo(1)) = 42 /\ Len(SentTo(1)) - 2 = 40 /\ IsAddress20(SentTo(1)))

C10_Witness ==
  /\ requests # <<>>
  /\ ~argv.has_resolver
  /\ SentTo(1) = DEFAULT_RESOLVER

====
